---- MODULE Spec2Model ----
(***************************************************************************)
(* Model of the data-refresh / caching core of src/bot.py:                 *)
(*   ESPNCache                (TTL cache)                                  *)
(*   LeagueManager            (league registry, user defaults, JSON file)  *)
(*   get_league               (foreground league resolution through cache) *)
(*   BackgroundRefreshManager (periodic cache warmer)                      *)
(*   ScoreboardView           (live scoreboard with an auto-refresh loop)  *)
(*                                                                         *)
(* Conventions.  Python None is the empty tuple <<>>.  A user id is the text *)
(* str(user_id) gives (str is the identity on text, and an f-string prints *)
(* an int and its str alike).  The league key f"{league_id}_{user_id}" is  *)
(* the pair <<league_id, user_id>>, and the cache key                      *)
(* f"league_{user_id}_{league_key or 'default'}" the triple                *)
(* <<"league", user_id, league_key or "default">>: both texts are read     *)
(* back unambiguously because league ids and user ids are integers.        *)
(* A dict is a function (its DOMAIN the keys); where the code iterates a   *)
(* dict its insertion order is kept beside it as a sequence of keys.       *)
(* A league name is a sequence of characters.                              *)
(***************************************************************************)
EXTENDS Integers, Sequences, FiniteSets, TLC

None == <<>>

\* ---------------------------------------------------------------- inputs
Users == {"1", "2"}
LeagueIds == {10, 20}
LEAGUE_ID == 99
SEASON_ID == 2024
SWID == None
ESPN_S2 == None

TTL == 300
API_RETRY_ATTEMPTS == 3
API_RETRY_DELAY == 2

\* bounds of the model's clock: the clock reads e * TTL + s, e <= MaxEpochs, s <= MaxSkew
MaxEpochs == 2
MaxSkew == 2
\* loop tasks one scoreboard message gets, and toggle clicks in flight at once
MaxLoops == 2
MaxToggles == 2
\* refresh tasks start_background_refresh creates
MaxBgTasks == 2
\* max_consecutive_errors of auto_refresh_loop
max_consecutive_errors == 10

LeagueKey(league_id, user_id) == <<league_id, user_id>>
AllLeagueKeys == {LeagueKey(l, u) : l \in LeagueIds, u \in Users}

UserCacheKey(user_id, league_key) ==
    <<"league", user_id, IF league_key # None THEN league_key ELSE "default">>
DefaultCacheKey == <<"default_league", LEAGUE_ID, SEASON_ID>>

\* names a user may type, and names the provider may report for a league
InputNames == {<<"A">>, <<"a", "b">>}
ApiNames == {None, <<"A", "b">>}
\* (swid, espn_s2) cookies a user may give; a cookie is a sequence of characters
CredPairs == {<<None, None>>, <<<<"w">>, <<"s">>>>, <<<<"w">>, None>>}

VARIABLES
    users,          \* LeagueManager.data['users']: user id -> [leagues, default_league]
    leagues,        \* LeagueManager.data['leagues']: league key -> config
    leagueOrder,    \* insertion order of the keys of data['leagues']
    disk,           \* contents of user_leagues.json
    cache,          \* ESPNCache.cache: cache key -> [data, timestamp]
    now,            \* time.time()
    lastOp,         \* observation: the last Registry call and what it returned
    lastReq,        \* observation: the last get_league call and what it returned
    written,        \* observation: per cache key, what the last set wrote and when
    lastGet,        \* observation: the last ESPNCache.get call and what it returned
    keysChanged,    \* data['leagues'] gained or lost a key while a pass is suspended
    bg,             \* BackgroundRefreshManager: [refresh_task, is_running]; the task
                    \*   is its index in bgTasks, 0 for None
    bgTasks,        \* the tasks start_background_refresh created, in order
    view,           \* the ScoreboardView of one /scoreboard message, None before it
    loops,          \* the auto_refresh_loop tasks of the view, in order of creation
    pendingToggles, \* toggle_refresh calls suspended in interaction.response.defer()
    lastPush,       \* observation: the last payload an auto-refresh iteration built
    switched,       \* observation: per user, the key of a set_default_league that
                    \*   returned True and that no unqualified request has followed
    watch           \* which observations are recorded ("registry", "requests")

regVars == <<users, leagues, leagueOrder, disk>>
cacheObs == <<written, lastGet>>
schedVars == <<keysChanged, bg, bgTasks>>
pollVars == <<view, loops, pendingToggles, lastPush, watch>>
reqObs == <<lastReq, switched>>
vars == <<users, leagues, leagueOrder, disk, cache, now, lastOp, lastReq, written,
          lastGet, keysChanged, bg, bgTasks, view, loops, pendingToggles, lastPush,
          switched, watch>>

\* ------------------------------------------------------------ sequences
SeqContains(s, x) == \E i \in 1..Len(s) : s[i] = x

RECURSIVE SeqRemoveFirst(_, _)
SeqRemoveFirst(s, x) ==
    IF s = <<>> THEN <<>>
    ELSE IF Head(s) = x THEN Tail(s)
    ELSE <<Head(s)>> \o SeqRemoveFirst(Tail(s), x)

DictSet(d, k, v) == [x \in DOMAIN d \cup {k} |-> IF x = k THEN v ELSE d[x]]
DictDel(d, k) == [x \in DOMAIN d \ {k} |-> d[x]]
EmptyDict == [x \in {} |-> None]

\* ------------------------------------------------------- remote provider
\* League(league_id, year, swid, espn_s2): the handle of one connection, with
\* the data the provider held at that moment
Handle(league_id, year, swid, espn_s2) ==
    [league_id |-> league_id, year |-> year, swid |-> swid, espn_s2 |-> espn_s2,
     fetched_at |-> now, teams_read |-> FALSE]

\* _ = league.teams: the teams of the handle are read once after the
\* constructor.  The read leaves the object as it is; that it was made is
\* kept with the handle (observation)
ReadTeams(h) == IF "reads" \in watch THEN [h EXCEPT !.teams_read = TRUE] ELSE h

\* the constructor call of the code, which passes the credentials only when
\* both are set
Connect(info) ==
    IF info.swid # None /\ info.espn_s2 # None
    THEN Handle(info.league_id, info.year, info.swid, info.espn_s2)
    ELSE Handle(info.league_id, info.year, None, None)

\* ------------------------------------------------------------ ESPNCache
\* an expiry test that forgets the TTL
is_expired_mut_no_ttl(timestamp) == now - timestamp > 0

is_expired(timestamp) == now - timestamp > TTL

\* what get returns
cache_get(c, key) ==
    IF key \in DOMAIN c /\ ~is_expired(c[key].timestamp) THEN c[key].data ELSE None

\* a read that leaves an expired entry in the store
cache_after_get_mut_no_purge(c, key) == c

\* the store after get: an expired entry is deleted by the read
cache_after_get(c, key) ==
    IF key \in DOMAIN c /\ is_expired(c[key].timestamp) THEN DictDel(c, key) ELSE c

cache_set(c, key, data) == DictSet(c, key, [data |-> data, timestamp |-> now])

\* get_stats that counts an entry as expired from the age of the ttl on
get_stats_mut_at_ttl(c) ==
    LET total_entries == Cardinality(DOMAIN c)
        expired_entries == Cardinality({k \in DOMAIN c : now - c[k].timestamp >= TTL})
    IN [total |-> total_entries, expired |-> expired_entries,
        active |-> total_entries - expired_entries]

get_stats(c) ==
    LET total_entries == Cardinality(DOMAIN c)
        expired_entries == Cardinality({k \in DOMAIN c : is_expired(c[k].timestamp)})
    IN [total |-> total_entries, expired |-> expired_entries,
        active |-> total_entries - expired_entries]


\* -------------------------------------------------------- LeagueManager
\* what the provider answers to the validation connection of register_league
RemoteAnswers ==
    {[raises |-> TRUE, has_teams |-> FALSE, name |-> None]}
    \cup [raises : {FALSE}, has_teams : BOOLEAN, name : ApiNames]

NewUser == [leagues |-> <<>>, default_league |-> None]

\* save_data: the whole of self.data replaces the file
save_data(u, l, o) == [users |-> u, leagues |-> l, order |-> o]

\* valid: whether the call's validation connection succeeded (register only)
Observe(op, user_id, league_key, result) ==
    [op |-> op, user |-> user_id, key |-> league_key, result |-> result,
     valid |-> TRUE, before |-> None, name |-> None, again |-> FALSE]

\* the user's default league, None for a user the Registry does not know
DefaultOf(user_id) ==
    IF user_id \in DOMAIN users THEN users[user_id].default_league ELSE None

\* register_league that stores the config before it looks at the validation
register_league_mut_persist_first(user_id, league_name, league_id, swid, espn_s2, remote) ==
    LET league_key == LeagueKey(league_id, user_id)
        info == [name |-> league_name, league_id |-> league_id, owner_id |-> user_id,
                 swid |-> swid, espn_s2 |-> espn_s2, year |-> SEASON_ID]
        l1 == DictSet(leagues, league_key, info)
        o1 == IF league_key \in DOMAIN leagues THEN leagueOrder
              ELSE Append(leagueOrder, league_key)
    IN /\ leagues' = l1
       /\ leagueOrder' = o1
       /\ users' = users
       /\ disk' = save_data(users, l1, o1)

\* register_league that makes every league it stores the default
register_league_mut_always_default(user_id, league_name, league_id, swid, espn_s2, remote) ==
    IF remote.raises \/ ~remote.has_teams
    THEN UNCHANGED regVars
    ELSE LET league_key == LeagueKey(league_id, user_id)
             info == [name |-> IF remote.name # None THEN remote.name ELSE league_name,
                      league_id |-> league_id, owner_id |-> user_id, swid |-> swid,
                      espn_s2 |-> espn_s2, year |-> SEASON_ID]
             l1 == DictSet(leagues, league_key, info)
             o1 == IF league_key \in DOMAIN leagues THEN leagueOrder
                   ELSE Append(leagueOrder, league_key)
             u1 == IF user_id \in DOMAIN users THEN users
                   ELSE DictSet(users, user_id, NewUser)
             u2 == IF SeqContains(u1[user_id].leagues, league_key) THEN u1
                   ELSE [u1 EXCEPT ![user_id].leagues = Append(@, league_key)]
             u3 == [u2 EXCEPT ![user_id].default_league = league_key]
         IN /\ leagues' = l1
            /\ leagueOrder' = o1
            /\ users' = u3
            /\ disk' = save_data(u3, l1, o1)

\* register_league that appends the key whether or not the user lists it
register_league_mut_always_append(user_id, league_name, league_id, swid, espn_s2, remote) ==
    IF remote.raises \/ ~remote.has_teams
    THEN UNCHANGED regVars
    ELSE LET league_key == LeagueKey(league_id, user_id)
             info == [name |-> IF remote.name # None THEN remote.name ELSE league_name,
                      league_id |-> league_id, owner_id |-> user_id, swid |-> swid,
                      espn_s2 |-> espn_s2, year |-> SEASON_ID]
             l1 == DictSet(leagues, league_key, info)
             o1 == IF league_key \in DOMAIN leagues THEN leagueOrder
                   ELSE Append(leagueOrder, league_key)
             u1 == IF user_id \in DOMAIN users THEN users
                   ELSE DictSet(users, user_id, NewUser)
             u2 == IF Len(u1[user_id].leagues) >= 2 THEN u1
                   ELSE [u1 EXCEPT ![user_id].leagues = Append(@, league_key)]
             u3 == IF u2[user_id].default_league = None
                   THEN [u2 EXCEPT ![user_id].default_league = league_key]
                   ELSE u2
         IN /\ leagues' = l1
            /\ leagueOrder' = o1
            /\ users' = u3
            /\ disk' = save_data(u3, l1, o1)

\* what register_league does to self.data and the file
register_league(user_id, league_name, league_id, swid, espn_s2, remote) ==
    IF remote.raises \/ ~remote.has_teams
    THEN \* the connection raised, or "League has no teams": ValueError, nothing stored
         UNCHANGED regVars
    ELSE LET league_key == LeagueKey(league_id, user_id)
             league_name_from_api ==
                 IF remote.name # None THEN remote.name ELSE league_name
             info == [name |-> league_name_from_api, league_id |-> league_id,
                      owner_id |-> user_id, swid |-> swid, espn_s2 |-> espn_s2,
                      year |-> SEASON_ID]
             l1 == DictSet(leagues, league_key, info)
             o1 == IF league_key \in DOMAIN leagues THEN leagueOrder
                   ELSE Append(leagueOrder, league_key)
             u1 == IF user_id \in DOMAIN users THEN users
                   ELSE DictSet(users, user_id, NewUser)
             u2 == IF SeqContains(u1[user_id].leagues, league_key) THEN u1
                   ELSE [u1 EXCEPT ![user_id].leagues = Append(@, league_key)]
             u3 == IF u2[user_id].default_league = None
                   THEN [u2 EXCEPT ![user_id].default_league = league_key]
                   ELSE u2
         IN /\ leagues' = l1
            /\ leagueOrder' = o1
            /\ users' = u3
            /\ disk' = save_data(u3, l1, o1)

\* what register_league returns or raises
register_league_result(remote) ==
    IF remote.raises \/ ~remote.has_teams THEN "ValueError" ELSE "ok"

set_default_league_result(user_id, league_key) ==
    IF /\ user_id \in DOMAIN users
       /\ SeqContains(users[user_id].leagues, league_key)
       /\ league_key \in DOMAIN leagues
    THEN "True" ELSE "False"

\* set_default_league without the test that the key is in the user's list
set_default_league_mut_any_key(user_id, league_key) ==
    IF /\ user_id \in DOMAIN users
       /\ league_key \in DOMAIN leagues
    THEN /\ users' = [users EXCEPT ![user_id].default_league = league_key]
         /\ disk' = save_data(users', leagues, leagueOrder)
         /\ UNCHANGED <<leagues, leagueOrder>>
    ELSE UNCHANGED regVars

\* set_default_league without save_data
set_default_league_mut_no_save(user_id, league_key) ==
    IF /\ user_id \in DOMAIN users
       /\ SeqContains(users[user_id].leagues, league_key)
       /\ league_key \in DOMAIN leagues
    THEN /\ users' = [users EXCEPT ![user_id].default_league = league_key]
         /\ UNCHANGED <<leagues, leagueOrder, disk>>
    ELSE UNCHANGED regVars

set_default_league(user_id, league_key) ==
    IF /\ user_id \in DOMAIN users
       /\ SeqContains(users[user_id].leagues, league_key)
       /\ league_key \in DOMAIN leagues
    THEN /\ users' = [users EXCEPT ![user_id].default_league = league_key]
         /\ disk' = save_data(users', leagues, leagueOrder)
         /\ UNCHANGED <<leagues, leagueOrder>>
    ELSE UNCHANGED regVars

remove_league_result(user_id, league_key) ==
    IF /\ user_id \in DOMAIN users
       /\ SeqContains(users[user_id].leagues, league_key)
    THEN "True" ELSE "False"

\* remove_league that forgets to promote: the default is left as it was
remove_league_mut_keep_default(user_id, league_key) ==
    IF /\ user_id \in DOMAIN users
       /\ SeqContains(users[user_id].leagues, league_key)
    THEN LET u1 == [users EXCEPT
                      ![user_id].leagues = SeqRemoveFirst(@, league_key)]
             owned == league_key \in DOMAIN leagues
                      /\ leagues[league_key].owner_id = user_id
             l1 == IF owned THEN DictDel(leagues, league_key) ELSE leagues
             o1 == IF owned THEN SeqRemoveFirst(leagueOrder, league_key)
                   ELSE leagueOrder
         IN /\ users' = u1
            /\ leagues' = l1
            /\ leagueOrder' = o1
            /\ disk' = save_data(u1, l1, o1)
    ELSE UNCHANGED regVars

\* remove_league that deletes the config of a key the user does not list
remove_league_mut_delete_unlisted(user_id, league_key) ==
    IF league_key \in DOMAIN leagues
    THEN LET l1 == DictDel(leagues, league_key)
             o1 == SeqRemoveFirst(leagueOrder, league_key)
             u1 == IF user_id \in DOMAIN users
                   THEN [users EXCEPT
                           ![user_id].leagues = SeqRemoveFirst(@, league_key)]
                   ELSE users
         IN /\ users' = u1
            /\ leagues' = l1
            /\ leagueOrder' = o1
            /\ disk' = save_data(u1, l1, o1)
    ELSE UNCHANGED regVars

\* remove_league that promotes the league registered last
remove_league_mut_promote_last(user_id, league_key) ==
    IF /\ user_id \in DOMAIN users
       /\ SeqContains(users[user_id].leagues, league_key)
    THEN LET u1 == [users EXCEPT
                      ![user_id].leagues = SeqRemoveFirst(@, league_key)]
             remaining_leagues == u1[user_id].leagues
             u2 == IF u1[user_id].default_league = league_key
                   THEN [u1 EXCEPT ![user_id].default_league =
                            IF remaining_leagues # <<>>
                            THEN remaining_leagues[Len(remaining_leagues)] ELSE None]
                   ELSE u1
             owned == league_key \in DOMAIN leagues
                      /\ leagues[league_key].owner_id = user_id
             l1 == IF owned THEN DictDel(leagues, league_key) ELSE leagues
             o1 == IF owned THEN SeqRemoveFirst(leagueOrder, league_key)
                   ELSE leagueOrder
         IN /\ users' = u2
            /\ leagues' = l1
            /\ leagueOrder' = o1
            /\ disk' = save_data(u2, l1, o1)
    ELSE UNCHANGED regVars

remove_league(user_id, league_key) ==
    IF /\ user_id \in DOMAIN users
       /\ SeqContains(users[user_id].leagues, league_key)
    THEN LET u1 == [users EXCEPT
                      ![user_id].leagues = SeqRemoveFirst(@, league_key)]
             remaining_leagues == u1[user_id].leagues
             u2 == IF u1[user_id].default_league = league_key
                   THEN [u1 EXCEPT ![user_id].default_league =
                            IF remaining_leagues # <<>>
                            THEN remaining_leagues[1] ELSE None]
                   ELSE u1
             owned == league_key \in DOMAIN leagues
                      /\ leagues[league_key].owner_id = user_id
             l1 == IF owned THEN DictDel(leagues, league_key) ELSE leagues
             o1 == IF owned THEN SeqRemoveFirst(leagueOrder, league_key)
                   ELSE leagueOrder
         IN /\ users' = u2
            /\ leagues' = l1
            /\ leagueOrder' = o1
            /\ disk' = save_data(u2, l1, o1)
    ELSE UNCHANGED regVars


\* get_league_connection: the league data['users'] / data['leagues'] resolve to,
\* connected; None when nothing resolves or the connection raises.  No retry.
ResolveKey(user_id, league_key) ==
    IF league_key # None THEN league_key
    ELSE IF user_id \notin DOMAIN users THEN None
    ELSE users[user_id].default_league

get_league_connection(user_id, league_key, raises) ==
    LET key == ResolveKey(user_id, league_key)
    IN IF key = None THEN None
       ELSE IF key \notin DOMAIN leagues THEN None
       ELSE IF raises THEN None
       ELSE Connect(leagues[key])

\* how many times get_league_connection calls the League constructor: once
\* when the key resolves to a registered league, inside one try
UserAttempts(user_id, league_key) ==
    LET key == ResolveKey(user_id, league_key)
    IN IF key # None /\ key \in DOMAIN leagues THEN 1 ELSE 0

\* ----------------------------------------------------------- get_league
\* get_league(user_id, league_key).  conn_raises: the user's connection raises;
\* failures: how many attempts of the fallback loop on the environment's
\* league fail in a row (API_RETRY_ATTEMPTS: all of them).
\* Gives the cache after the call, the league returned and whether
\* ConnectionError was raised.
get_league(user_id, league_key, conn_raises, failures) ==
    LET cache_key == UserCacheKey(user_id, league_key)
        cached_league == cache_get(cache, cache_key)
        c1 == cache_after_get(cache, cache_key)
        user_league == get_league_connection(user_id, league_key, conn_raises)
        env_league == ReadTeams(Connect([league_id |-> LEAGUE_ID, year |-> SEASON_ID,
                                         swid |-> SWID, espn_s2 |-> ESPN_S2]))
    IN IF cached_league # None
       THEN [cache |-> c1, league |-> cached_league, raised |-> FALSE,
             source |-> "cache", attempts |-> 0]
       ELSE IF user_league # None
       THEN [cache |-> cache_set(c1, cache_key, user_league), league |-> user_league,
             raised |-> FALSE, source |-> "user", attempts |-> 0]
       ELSE IF failures < API_RETRY_ATTEMPTS
       THEN [cache |-> cache_set(c1, cache_key, env_league), league |-> env_league,
             raised |-> FALSE, source |-> "env", attempts |-> failures + 1]
       ELSE [cache |-> c1, league |-> None, raised |-> TRUE,
             source |-> "env", attempts |-> API_RETRY_ATTEMPTS]


\* ------------------------------------------------------------------ time
\* time passes by d seconds; the clock stays of the form e * TTL + s
Tick(d) ==
    /\ d = 1 => now % TTL < MaxSkew
    /\ d # 1 => now \div TTL < MaxEpochs
    /\ now' = now + d
    /\ UNCHANGED <<regVars, cache, lastOp, reqObs, cacheObs, schedVars, pollVars>>

\* ---------------------------------------------- the cache used on its own
CacheKeys == {UserCacheKey(u, None) : u \in Users}
CacheValues == {Handle(l, SEASON_ID, None, None) : l \in LeagueIds}
NoGet == [key |-> None, value |-> None, expected |-> None]

\* espn_cache.set(key, data)
espn_cache_set(key, data) ==
    /\ cache' = cache_set(cache, key, data)
    /\ written' = DictSet(written, key, [data |-> data, timestamp |-> now])
    /\ UNCHANGED <<regVars, now, lastOp, reqObs, lastGet, schedVars, pollVars>>

\* espn_cache.get(key); expected: what the latest set of this key stored, when
\* that set is less than TTL old and no clear came after it
espn_cache_get(key) ==
    /\ cache' = cache_after_get(cache, key)
    /\ lastGet' = [key |-> key, value |-> cache_get(cache, key),
                   expected |-> IF key \in DOMAIN written
                                   /\ now - written[key].timestamp < TTL
                                THEN written[key].data ELSE None]
    /\ UNCHANGED <<regVars, now, lastOp, reqObs, written, schedVars, pollVars>>

\* espn_cache.clear()
espn_cache_clear ==
    /\ cache' = EmptyDict
    /\ written' = EmptyDict
    /\ UNCHANGED <<regVars, now, lastOp, reqObs, lastGet, schedVars, pollVars>>

\* ------------------------------------------------------------------ Init
NoOp == Observe(None, None, None, None)
NoReq == [user |-> None, key |-> None, league |-> None, raised |-> FALSE,
          source |-> None, expect |-> None, attempts |-> 0, user_attempts |-> 0,
          user_failed |-> FALSE]

Init(watched) ==
    /\ watch = watched
    /\ users = EmptyDict
    /\ leagues = EmptyDict
    /\ leagueOrder = <<>>
    /\ disk = save_data(EmptyDict, EmptyDict, <<>>)
    /\ cache = EmptyDict
    /\ now = 0
    /\ lastOp = NoOp
    /\ lastReq = NoReq
    /\ written = EmptyDict
    /\ lastGet = NoGet
    /\ keysChanged = FALSE
    /\ bg = [refresh_task |-> 0, is_running |-> FALSE]
    /\ bgTasks = <<>>
    /\ view = None
    /\ loops = <<>>
    /\ pendingToggles = 0
    /\ lastPush = None
    /\ switched = [u \in Users |-> None]

\* ------------------------------------------------- the Cache on its own
NextCache ==
    \/ \E k \in CacheKeys, v \in CacheValues : espn_cache_set(k, v)
    \/ \E k \in CacheKeys : espn_cache_get(k)
    \/ espn_cache_clear
    \/ \E d \in {1, TTL} : Tick(d)

SpecCache == Init({}) /\ [][NextCache]_vars


\* --------------------------------------------- cooperative scheduling
\* A task that is running (not suspended in an await) keeps the event loop:
\* nothing else runs until it reaches its next await.
BgRunning == \E i \in 1..Len(bgTasks) : bgTasks[i].pc = "iter"
BgSuspendedInPass == \E i \in 1..Len(bgTasks) : bgTasks[i].pc = "pacing"
Idle == ~BgRunning

\* a refresh task: where it is (pc), its dict iterator (pos entries consumed of
\* size), and what the current or last pass did (observation): the leagues at
\* its start, those fetched and cached, those whose fetch raised, those skipped
\* as fresh, how it ended, and whether the Registry changed under it
NewBgTask ==
    [pc |-> "sleep", pos |-> 0, size |-> 0, start |-> <<>>, fetched |-> {},
     failed |-> {}, skipped |-> {}, outcome |-> "none", mutated |-> FALSE,
     cancelled |-> FALSE, cooled |-> FALSE]

\* the task with the record of its pass wiped; cancelled: cancel() was called
\* on the task; cooled: the task has been through the cooldown of
\* _refresh_loop (observation)
FreshPass(t) == [NewBgTask EXCEPT !.cancelled = t.cancelled, !.cooled = t.cooled]

\* Registry calls seen from the pass: the dict's keys changed under an iterator
\* suspended in the pacing delay; the record of a finished pass is dropped
\* once the leagues it describes change
PassObserve ==
    LET changed == DOMAIN leagues' # DOMAIN leagues
    IN /\ keysChanged' = (keysChanged \/ (BgSuspendedInPass /\ changed))
       /\ bgTasks' = [i \in DOMAIN bgTasks |->
                        IF changed /\ bgTasks[i].pc = "sleep"
                        THEN FreshPass(bgTasks[i]) ELSE bgTasks[i]]

\* -------------------------------------------- Registry calls as actions
Watched(channel, var, value) == IF channel \in watch THEN value ELSE var

RegisterLeague(user_id, league_name, league_id, swid, espn_s2, remote) ==
    /\ Idle
    /\ register_league(user_id, league_name, league_id, swid, espn_s2, remote)
    /\ lastOp' = Watched("registry", lastOp,
          [Observe("register", user_id, LeagueKey(league_id, user_id),
                   register_league_result(remote))
           EXCEPT !.valid = ~(remote.raises \/ ~remote.has_teams),
                  !.before = DefaultOf(user_id),
                  !.name = IF "names" \in watch THEN league_name ELSE None,
                  !.again = "names" \in watch
                            /\ LeagueKey(league_id, user_id) \in DOMAIN leagues])
    /\ PassObserve
    /\ UNCHANGED <<cache, now, reqObs, cacheObs, bg, pollVars>>

SetDefaultLeague(user_id, league_key) ==
    /\ Idle
    /\ set_default_league(user_id, league_key)
    /\ lastOp' = Watched("registry", lastOp,
          Observe("set_default", user_id, league_key,
                  set_default_league_result(user_id, league_key)))
    /\ switched' = Watched("requests", switched,
          IF set_default_league_result(user_id, league_key) = "True"
          THEN [switched EXCEPT ![user_id] = league_key] ELSE switched)
    /\ UNCHANGED <<cache, now, lastReq, cacheObs, schedVars, pollVars>>

RemoveLeague(user_id, league_key) ==
    /\ Idle
    /\ remove_league(user_id, league_key)
    /\ lastOp' = Watched("registry", lastOp,
          [Observe("remove", user_id, league_key,
                   remove_league_result(user_id, league_key))
           EXCEPT !.before = DefaultOf(user_id)])
    /\ switched' = Watched("requests", switched,
          IF remove_league_result(user_id, league_key) = "True"
             /\ switched[user_id] = league_key
          THEN [switched EXCEPT ![user_id] = None] ELSE switched)
    /\ PassObserve
    /\ UNCHANGED <<cache, now, lastReq, cacheObs, bg, pollVars>>

\* a command calls get_league(user_id, league_key)
GetLeague(user_id, league_key, conn_raises, failures) ==
    /\ Idle
    /\ LET r == get_league(user_id, league_key, conn_raises, failures)
       IN /\ cache' = r.cache
          /\ lastReq' = Watched("requests", lastReq,
                [user |-> user_id, key |-> league_key, league |-> r.league,
                 raised |-> r.raised, source |-> r.source,
                 expect |-> IF league_key = None THEN switched[user_id] ELSE None,
                 attempts |-> r.attempts,
                 user_attempts |-> UserAttempts(user_id, league_key),
                 user_failed |-> conn_raises /\ UserAttempts(user_id, league_key) > 0])
    /\ switched' = Watched("requests", switched,
          IF league_key = None THEN [switched EXCEPT ![user_id] = None] ELSE switched)
    /\ UNCHANGED <<regVars, now, lastOp, cacheObs, schedVars, pollVars>>

\* ---------------------------------------------- the Registry on its own
NextRegistry ==
    \/ \E u \in Users, n \in InputNames, l \in LeagueIds,
          r \in {x \in RemoteAnswers : x.name = None} :
          RegisterLeague(u, n, l, None, None, r)
    \/ \E u \in Users, k \in AllLeagueKeys : SetDefaultLeague(u, k)
    \/ \E u \in Users, k \in AllLeagueKeys : RemoveLeague(u, k)

SpecRegistry == Init({"registry"}) /\ [][NextRegistry]_vars


\* ========================================================== the claims

\* C2: in every Registry state reachable by register, setDefault and remove
\* calls of any users, each user's default_league is None or one of that
\* user's leagues, and it is None only when the user has no league.
C2_DefaultIsMember ==
    \A u \in DOMAIN users :
        /\ users[u].default_league # None
              => SeqContains(users[u].leagues, users[u].default_league)
        /\ users[u].default_league = None => users[u].leagues = <<>>

\* C2's case: a user's default was removed and another league took its place
C2_Witness ==
    /\ lastOp.op = "remove" /\ lastOp.result = "True"
    /\ lastOp.user \in DOMAIN users
    /\ users[lastOp.user].leagues # <<>>
    /\ users[lastOp.user].default_league # lastOp.key
    /\ \E u \in DOMAIN users : u # lastOp.user /\ users[u].leagues = <<>>

\* C6: a register call whose validation fails (the connection raises, or the
\* provider lists no team) raises ValueError and changes neither the league
\* configs, nor any user's leagues or default, nor the file.
C6_FailedRegisterChangesNothing ==
    [][(lastOp'.op = "register" /\ ~lastOp'.valid)
         => (lastOp'.result = "ValueError" /\ UNCHANGED regVars)]_vars

\* C6's case: a register call has just failed on a Registry that holds leagues
C6_Witness ==
    /\ lastOp.op = "register" /\ ~lastOp.valid /\ lastOp.result = "ValueError"
    /\ leagueOrder # <<>>
    /\ lastOp.key \in DOMAIN leagues

\* C10: get(k) after set(k, v), with no set(k, .) and no clear() in between and
\* less than TTL later, returns v, whatever was set or read on other keys.
C10_GetAfterSet ==
    lastGet.expected # None => lastGet.value = lastGet.expected

\* C10's case: time has passed since set(k, v), another key was set after it,
\* and get(k) has just returned within the TTL
C10_Witness ==
    /\ lastGet.expected # None
    /\ lastGet.key \in DOMAIN written
    /\ written[lastGet.key].data = lastGet.expected
    /\ now > written[lastGet.key].timestamp
    /\ \E k \in DOMAIN written :
          /\ k # lastGet.key
          /\ written[k].timestamp > written[lastGet.key].timestamp
          /\ written[k].data # lastGet.expected


\* the entries set, not cleared, and not older than the TTL, whether or not a
\* read has purged them
ActiveWritten == {k \in DOMAIN written : ~(now - written[k].timestamp > TTL)}

\* what get_stats reports against the entries set and not yet expired
StatsAgree ==
    /\ get_stats(cache).active = Cardinality(ActiveWritten)
    /\ get_stats(cache).total = get_stats(cache).active + get_stats(cache).expired

\* C11: a get(k) made when more than the TTL has passed since set(k, v)
\* returns None and deletes the entry from the store; get_stats counts as
\* active the entries set and not yet expired, also while expired entries
\* are still in the store.
C11_ExpiredIsAbsentAndPurged ==
    [][/\ \A k \in CacheKeys :
             (/\ espn_cache_get(k)
              /\ k \in DOMAIN written
              /\ now - written[k].timestamp > TTL)
                 => (lastGet'.value = None /\ k \notin DOMAIN cache')
       /\ StatsAgree /\ StatsAgree']_vars

\* C11's case: an expired entry has just been read and purged, while another
\* expired entry is still in the store and a third state of the count, an
\* active entry, is absent
C11_Witness ==
    /\ lastGet.key \in DOMAIN written
    /\ now - written[lastGet.key].timestamp > TTL
    /\ lastGet.value = None
    /\ lastGet.key \notin DOMAIN cache
    /\ \E k \in DOMAIN cache : is_expired(cache[k].timestamp)
    /\ get_stats(cache).active = 0
    /\ get_stats(cache).expired = 1

\* C12: a get(k) made when exactly the TTL has passed since set(k, v) returns
\* None: an entry is readable only while its age is below the TTL.
C12_AbsentAtExactTTL ==
    [][\A k \in CacheKeys :
          (/\ espn_cache_get(k)
           /\ k \in DOMAIN written
           /\ now - written[k].timestamp = TTL)
              => lastGet'.value = None]_vars


\* ----------------------------------- requests over Registry and Cache
\* every caller of get_league passes the user id alone (league_key is None)
RequestKeys == {None}
\* how many attempts of the fallback loop fail: none, some, all
FallbackFailures == {0, 1, API_RETRY_ATTEMPTS}

\* one user's commands: register, switch, remove, and requests for data
RequestUsers == {"1"}

NextRequests ==
    \/ \E u \in RequestUsers, l \in LeagueIds,
          r \in {x \in RemoteAnswers : x.name = None} :
          RegisterLeague(u, <<"A">>, l, None, None, r)
    \/ \E u \in RequestUsers, l \in LeagueIds : SetDefaultLeague(u, LeagueKey(l, u))
    \/ \E u \in RequestUsers, l \in LeagueIds : RemoveLeague(u, LeagueKey(l, u))
    \/ \E u \in RequestUsers, k \in RequestKeys, cr \in BOOLEAN, f \in FallbackFailures :
          GetLeague(u, k, cr, f)
    \/ Tick(TTL)

SpecRequests == Init({"requests", "reads"}) /\ [][NextRequests]_vars

\* C7: after set_default_league(U, k) returned True, U's next request without
\* a league key returns the data of league k, not the previous default's
\* (requests answered with the environment's fallback league are left aside).
C7_NextRequestUsesNewDefault ==
    (/\ lastReq.expect # None
     /\ ~lastReq.raised
     /\ lastReq.league.league_id # LEAGUE_ID)
        => lastReq.league.league_id = lastReq.expect[1]


\* ------------------------------------------- BackgroundRefreshManager
\* start_background_refresh, called by on_ready
\* start_background_refresh without the test of is_running
StartBackgroundRefresh_mut_always ==
    /\ Idle
    /\ Len(bgTasks) < MaxBgTasks
    /\ bgTasks' = Append(bgTasks, NewBgTask)
    /\ bg' = [refresh_task |-> Len(bgTasks) + 1, is_running |-> TRUE]
    /\ UNCHANGED <<regVars, cache, now, lastOp, reqObs, cacheObs, keysChanged, pollVars>>

StartBackgroundRefresh ==
    /\ Idle
    /\ bg.is_running \/ Len(bgTasks) < MaxBgTasks
    /\ IF ~bg.is_running
       THEN /\ bgTasks' = Append(bgTasks, NewBgTask)
            /\ bg' = [refresh_task |-> Len(bgTasks) + 1, is_running |-> TRUE]
       ELSE UNCHANGED <<bg, bgTasks>>
    /\ UNCHANGED <<regVars, cache, now, lastOp, reqObs, cacheObs, keysChanged, pollVars>>

\* _refresh_loop: sleep(180) is over, _refresh_common_data starts to iterate
\* league_manager.data['leagues']
BgWake(i) ==
    /\ Idle
    /\ bgTasks[i].pc = "sleep"
    /\ ~bgTasks[i].cancelled
    /\ bgTasks' = [bgTasks EXCEPT ![i] =
          [FreshPass(@) EXCEPT !.pc = "iter", !.size = Len(leagueOrder),
                               !.start = leagueOrder, !.outcome = "running"]]
    /\ keysChanged' = FALSE
    /\ UNCHANGED <<regVars, cache, now, lastOp, reqObs, cacheObs, bg, pollVars>>

\* the pass is over: _refresh_common_data returns (the block "also refresh
\* default league" never runs: hasattr(globals(), 'LEAGUE_ID') asks the dict
\* for an attribute and is False), _refresh_loop goes back to sleep(180)
EndPass(t, outcome, changed) ==
    [t EXCEPT !.pc = "sleep", !.outcome = outcome, !.mutated = t.mutated \/ changed]

\* one league of the pass whose fetch raises: the pass ends there
BgLeague_mut_abort(t, league_key, fetch_raises) ==
    LET info == leagues[league_key]
        cache_key == UserCacheKey(info.owner_id, None)
        c1 == cache_after_get(cache, cache_key)
    IN IF cache_get(cache, cache_key) # None
       THEN [cache |-> c1,
             task |-> [t EXCEPT !.pos = t.pos + 1, !.skipped = t.skipped \cup {league_key}]]
       ELSE IF fetch_raises
       THEN [cache |-> c1,
             task |-> EndPass([t EXCEPT !.failed = t.failed \cup {league_key}],
                              "aborted", FALSE)]
       ELSE [cache |-> cache_set(c1, cache_key, ReadTeams(Connect(info))),
             task |-> [t EXCEPT !.pos = t.pos + 1, !.pc = "pacing",
                                !.fetched = t.fetched \cup {league_key}]]

\* one league of the pass, fetched whether or not its cache key is fresh
BgLeague_mut_always_fetch(t, league_key, fetch_raises) ==
    LET info == leagues[league_key]
        cache_key == UserCacheKey(info.owner_id, None)
        c1 == cache_after_get(cache, cache_key)
    IN IF fetch_raises
       THEN [cache |-> c1,
             task |-> [t EXCEPT !.pos = t.pos + 1, !.failed = t.failed \cup {league_key}]]
       ELSE [cache |-> cache_set(c1, cache_key, ReadTeams(Connect(info))),
             task |-> [t EXCEPT !.pos = t.pos + 1, !.pc = "pacing",
                                !.fetched = t.fetched \cup {league_key}]]

\* one league of the pass, with the task suspended between the fetch and the
\* store of its result
BgLeague_mut_fetch_then_await(t, league_key, fetch_raises) ==
    LET info == leagues[league_key]
        cache_key == UserCacheKey(info.owner_id, None)
        c1 == cache_after_get(cache, cache_key)
    IN IF cache_get(cache, cache_key) # None
       THEN [cache |-> c1,
             task |-> [t EXCEPT !.pos = t.pos + 1, !.skipped = t.skipped \cup {league_key}]]
       ELSE IF fetch_raises
       THEN [cache |-> c1,
             task |-> [t EXCEPT !.pos = t.pos + 1, !.failed = t.failed \cup {league_key}]]
       ELSE [cache |-> c1,
             task |-> [t EXCEPT !.pos = t.pos + 1, !.pc = "pacing",
                                !.fetched = t.fetched \cup {league_key}]]

\* the body of the for loop for one league: skip it when its cache key holds
\* a fresh entry; else connect and load the teams; if that raises, log and
\* go on with the next league; else cache the league and sleep(2)
BgLeague(t, league_key, fetch_raises) ==
    LET info == leagues[league_key]
        cache_key == UserCacheKey(info.owner_id, None)
        c1 == cache_after_get(cache, cache_key)
    IN IF cache_get(cache, cache_key) # None
       THEN [cache |-> c1,
             task |-> [t EXCEPT !.pos = t.pos + 1, !.skipped = t.skipped \cup {league_key}]]
       ELSE IF fetch_raises
       THEN [cache |-> c1,
             task |-> [t EXCEPT !.pos = t.pos + 1, !.failed = t.failed \cup {league_key}]]
       ELSE [cache |-> cache_set(c1, cache_key, ReadTeams(Connect(info))),
             task |-> [t EXCEPT !.pos = t.pos + 1, !.pc = "pacing",
                                !.fetched = t.fetched \cup {league_key}]]

\* the for statement asks the dict iterator for the next item.  A dict whose
\* size changed since the iterator was made raises RuntimeError, which the
\* outer except of _refresh_common_data logs: the pass ends.  When keys
\* changed and the size is the same the iterator may raise as well
\* (resync_raises) or go on from its position in the dict as it is now.
BgIterate(i, fetch_raises, resync_raises) ==
    /\ bgTasks[i].pc = "iter"
    /\ LET t == bgTasks[i]
           r == BgLeague(t, leagueOrder[t.pos + 1], fetch_raises)
       IN IF Len(leagueOrder) # t.size \/ (keysChanged /\ resync_raises)
          THEN /\ bgTasks' = [bgTasks EXCEPT ![i] = EndPass(t, "aborted", TRUE)]
               /\ cache' = cache
          ELSE IF t.pos >= Len(leagueOrder)
          THEN /\ bgTasks' = [bgTasks EXCEPT ![i] = EndPass(t, "completed", keysChanged)]
               /\ cache' = cache
          ELSE /\ bgTasks' = [bgTasks EXCEPT ![i] =
                                 [r.task EXCEPT !.mutated = t.mutated \/ keysChanged]]
               /\ cache' = r.cache
    /\ keysChanged' = FALSE
    /\ UNCHANGED <<regVars, now, lastOp, reqObs, cacheObs, bg, pollVars>>

\* the pacing delay sleep(2) is over
BgPaceDone(i) ==
    /\ Idle
    /\ bgTasks[i].pc = "pacing"
    /\ ~bgTasks[i].cancelled
    /\ bgTasks' = [bgTasks EXCEPT ![i].pc = "iter"]
    /\ UNCHANGED <<regVars, cache, now, lastOp, reqObs, cacheObs, keysChanged, bg,
                   pollVars>>

\* --------------------------- the Scheduler beside the commands of users
\* who registers which league: user 1 two leagues, user 2 one
SchedLeagues == {<<"1", 10>>, <<"1", 20>>, <<"2", 10>>}

NextSched ==
    \/ \E p \in SchedLeagues :
          RegisterLeague(p[1], <<"A">>, p[2], None, None,
                         [raises |-> FALSE, has_teams |-> TRUE, name |-> None])
    \/ \E p \in SchedLeagues : SetDefaultLeague(p[1], LeagueKey(p[2], p[1]))
    \/ \E p \in SchedLeagues : RemoveLeague(p[1], LeagueKey(p[2], p[1]))
    \/ \E u \in RequestUsers, cr \in BOOLEAN, f \in {0, API_RETRY_ATTEMPTS} :
          GetLeague(u, None, cr, f)
    \/ StartBackgroundRefresh
    \/ \E i \in DOMAIN bgTasks : BgWake(i)
    \/ \E i \in DOMAIN bgTasks, fr \in BOOLEAN, rr \in BOOLEAN : BgIterate(i, fr, rr)
    \/ \E i \in DOMAIN bgTasks : BgPaceDone(i)
    \/ Idle /\ Tick(TTL)

SpecSched == Init({}) /\ [][NextSched]_vars

\* how a pass ended, for the passes that did
Ended(t) == t.outcome \in {"completed", "aborted"}

\* the leagues of the pass that were dealt with: fetched and set into the
\* cache, skipped because their cache key held a fresh entry, or failed
Handled(t) == t.fetched \cup t.skipped \cup t.failed

\* C3: under any interleaving of get_league calls and Scheduler passes, the
\* value written under a user's default cache key is data of the league that
\* key resolves to through the Registry at the time of the write (the user's
\* default league), also when the user owns several leagues and when the
\* connection to the user's league fails.
C3_WriteHoldsResolvedLeague ==
    [][\A u \in Users :
          LET k == UserCacheKey(u, None)
          IN (/\ k \in DOMAIN cache'
              /\ (k \notin DOMAIN cache \/ cache'[k] # cache[k])
              /\ u \in DOMAIN users
              /\ users[u].default_league # None)
                 => cache'[k].data.league_id = users[u].default_league[1]]_vars

\* C4: a league whose fetch raises does not end the pass: the step goes on to
\* the next league, and a pass under which the Registry did not change runs to
\* its end with every league either fetched and set into the cache, skipped
\* because its cache key held a fresh entry, or failed itself.
C4_FetchFailureDoesNotAbortPass ==
    [][\A i \in DOMAIN bgTasks :
          /\ (bgTasks[i].pc = "iter" /\ bgTasks'[i].failed # bgTasks[i].failed)
                => (/\ bgTasks'[i].outcome = "running"
                    /\ bgTasks'[i].pc = "iter"
                    /\ bgTasks'[i].pos = bgTasks[i].pos + 1)
          /\ (Ended(bgTasks'[i]) /\ ~bgTasks'[i].mutated)
                => (/\ bgTasks'[i].outcome = "completed"
                    /\ \A j \in 1..Len(bgTasks'[i].start) :
                          bgTasks'[i].start[j] \in Handled(bgTasks'[i]))]_vars

\* a pass that ran to its end although the fetch of its first league raised,
\* and fetched a later league
C4_Witness ==
    \E i \in DOMAIN bgTasks :
       LET t == bgTasks[i]
       IN /\ t.outcome = "completed"
          /\ ~t.mutated
          /\ Len(t.start) >= 2
          /\ t.start[1] \in t.failed
          /\ \E j \in 2..Len(t.start) : t.start[j] \in t.fetched

\* C5: a register of a new league or a remove made while the pass is suspended
\* at its pacing delay is safe: the pass does not stop early, and every league
\* registered from its start to its end is fetched, skipped as fresh, or
\* failed itself.
C5_MutationDuringPacingIsSafe ==
    \A i \in DOMAIN bgTasks :
       LET t == bgTasks[i]
       IN (Ended(t) /\ t.mutated)
             => (/\ t.outcome = "completed"
                 /\ \A j \in 1..Len(t.start) :
                       t.start[j] \in DOMAIN leagues => t.start[j] \in Handled(t))

\* ------------------------------------------------------- ScoreboardView
\* The view of one scoreboard message: auto_refresh, refresh_task (the index
\* of the task in loops), league, user_id, and _message: "sending" while the
\* command awaits followup.send, "set" once view._message is assigned,
\* "unset" when the send raised and the attribute was never set.
\* A loop task: where it waits (pc: "sleep" in asyncio.sleep(30), "edit" in
\* _message.edit, "done"), its local consecutive_errors and embeds, whether
\* cancel() was called on it, and failStreak, the number of iterations in a
\* row in which the fetch, the render or the push failed (observation);
\* result, how the last iteration that ended went ("ok", "failed", "none"
\* before the first), and errors_before, the value of consecutive_errors at
\* the start of the last iteration that started (observations).
NewLoop ==
    [pc |-> "sleep", consecutive_errors |-> 0, embeds |-> None,
     cancelled |-> FALSE, failStreak |-> 0, result |-> "none", errors_before |-> 0]

\* Task.cancel(): a task that is not done gets CancelledError at the await it
\* is suspended in
Cancel(ls, idx) ==
    IF idx \in DOMAIN ls /\ ls[idx].pc # "done"
    THEN [ls EXCEPT ![idx].cancelled = TRUE] ELSE ls

\* a loop that can still fetch or push
Live(l) == l.pc # "done" /\ ~l.cancelled

\* create_updated_embeds: the league comes from get_league(user_id); the scores
\* come from league.box_scores, a request of its own, or, when that raises,
\* from the teams of the league object.  Every exception of the body ends in
\* the except branch, which gives one error embed: the result is never empty
\* and nothing is raised to the caller.
create_updated_embeds(v, conn_raises, failures, box_raises) ==
    LET r == get_league(v.user_id, None, conn_raises, failures)
    IN IF r.raised
       THEN [cache |-> r.cache, league |-> v.league,
             embeds |-> [error |-> TRUE, league |-> None, source |-> "none",
                         scores_at |-> now, made_at |-> now]]
       ELSE [cache |-> r.cache, league |-> r.league,
             embeds |-> [error |-> FALSE, league |-> r.league, source |-> r.source,
                         scores_at |-> IF box_raises THEN r.league.fetched_at ELSE now,
                         made_at |-> now]]

\* the test of the while statement
LoopGoesOn(auto_refresh, consecutive_errors) ==
    auto_refresh /\ consecutive_errors < max_consecutive_errors

Streak(l, failed) ==
    IF "streak" \notin watch THEN l.failStreak
    ELSE IF ~failed THEN 0
    ELSE IF l.failStreak < max_consecutive_errors THEN l.failStreak + 1
    ELSE l.failStreak

IterationResult(l, failed) ==
    IF "streak" \notin watch THEN l.result
    ELSE IF failed THEN "failed" ELSE "ok"

ErrorsBefore(l) ==
    IF "streak" \notin watch THEN l.errors_before ELSE l.consecutive_errors

\* len(all_embeds) of a ScoreboardView: the scoreboard command passes no
\* all_embeds and the constructor takes the empty list; the other lengths are
\* what a caller of the constructor may pass
EmbedCounts == {0, 1, 2, 3, 5}
EmbedChoices == IF "pages" \in watch THEN EmbedCounts ELSE {0}

\* the scoreboard command: get_league for the user; a ConnectionError ends in
\* the error message; with auto_refresh a ScoreboardView is made, whose
\* constructor creates the loop task, and the command awaits followup.send
Scoreboard(user_id, auto_refresh, conn_raises, failures) ==
    /\ Idle
    /\ view = None
    /\ LET r == get_league(user_id, None, conn_raises, failures)
       IN /\ cache' = r.cache
          /\ IF ~r.raised /\ auto_refresh
             THEN /\ \E n \in EmbedChoices :
                        view' = [auto_refresh |-> TRUE, refresh_task |-> Len(loops) + 1,
                                 league |-> r.league, user_id |-> user_id,
                                 message |-> "sending", all_embeds |-> n,
                                 current_page |-> 0, button |-> None, manual |-> None,
                                 timeouts |-> 0]
                  /\ loops' = Append(loops, NewLoop)
             ELSE UNCHANGED <<view, loops>>
    /\ UNCHANGED <<regVars, now, lastOp, reqObs, cacheObs, schedVars, pendingToggles,
                   lastPush, watch>>

\* followup.send returns and view._message is assigned, or it raises
SendDone(ok) ==
    /\ Idle
    /\ view # None
    /\ view.message = "sending"
    /\ view' = [view EXCEPT !.message = IF ok THEN "set" ELSE "unset"]
    /\ UNCHANGED <<regVars, cache, now, lastOp, reqObs, cacheObs, schedVars, loops,
                   pendingToggles, lastPush, watch>>

\* auto_refresh_loop from the end of sleep(30) to its next await: leave when
\* auto_refresh is off; else create the embeds, reset consecutive_errors, and
\* edit the message when there is one
LoopWake(i, conn_raises, failures, box_raises) ==
    /\ Idle
    /\ loops[i].pc = "sleep"
    /\ ~loops[i].cancelled
    /\ IF ~view.auto_refresh
       THEN /\ loops' = [loops EXCEPT ![i].pc = "done"]
            /\ UNCHANGED <<cache, view>>
       ELSE LET e == create_updated_embeds(view, conn_raises, failures, box_raises)
            IN /\ cache' = e.cache
               /\ view' = [view EXCEPT !.league = e.league]
               /\ loops' = [loops EXCEPT ![i] =
                     IF view.message = "set"
                     THEN [@ EXCEPT !.pc = "edit", !.consecutive_errors = 0,
                                    !.embeds = e.embeds,
                                    !.errors_before = ErrorsBefore(loops[i])]
                     ELSE [@ EXCEPT !.pc = "sleep", !.consecutive_errors = 0,
                                    !.embeds = None,
                                    !.failStreak = Streak(loops[i], e.embeds.error),
                                    !.result = IterationResult(loops[i], e.embeds.error),
                                    !.errors_before = ErrorsBefore(loops[i])]]
    /\ UNCHANGED <<regVars, now, lastOp, reqObs, cacheObs, schedVars, pendingToggles,
                   lastPush, watch>>

\* auto_refresh_loop from the end of _message.edit to its next await.
\* NotFound and Forbidden leave the loop; HTTPException and any other
\* Exception count an error, and at max_consecutive_errors turn auto_refresh
\* off and leave; else the loop goes back to the while test.
LoopEditDone(i, outcome) ==
    /\ Idle
    /\ loops[i].pc = "edit"
    /\ ~loops[i].cancelled
    /\ LET l == loops[i]
           errors == IF outcome \in {"HTTPException", "Exception"}
                     THEN l.consecutive_errors + 1 ELSE l.consecutive_errors
           disable == outcome \in {"HTTPException", "Exception"}
                         /\ errors >= max_consecutive_errors
           leave == \/ outcome \in {"NotFound", "Forbidden"}
                    \/ disable
                    \/ ~LoopGoesOn(view.auto_refresh, errors)
       IN /\ loops' = [loops EXCEPT ![i] =
                [pc |-> IF leave THEN "done" ELSE "sleep",
                 consecutive_errors |-> errors, embeds |-> None,
                 cancelled |-> FALSE,
                 failStreak |-> Streak(l, outcome # "ok" \/ l.embeds.error),
                 result |-> IterationResult(l, outcome # "ok" \/ l.embeds.error),
                 errors_before |-> l.errors_before]]
          /\ view' = IF disable THEN [view EXCEPT !.auto_refresh = FALSE] ELSE view
          /\ lastPush' = IF outcome = "ok" THEN Watched("push", lastPush, l.embeds)
                         ELSE lastPush
    /\ UNCHANGED <<regVars, cache, now, lastOp, reqObs, cacheObs, schedVars,
                   pendingToggles, watch>>

\* CancelledError reaches the loop at its await; no except Exception catches
\* it, the handler of the outer try ends the task
LoopCancelled(i) ==
    /\ Idle
    /\ loops[i].cancelled
    /\ loops[i].pc # "done"
    /\ loops' = [loops EXCEPT ![i] = [@ EXCEPT !.pc = "done", !.embeds = None]]
    /\ UNCHANGED <<regVars, cache, now, lastOp, reqObs, cacheObs, schedVars, view,
                   pendingToggles, lastPush, watch>>

\* a click on the toggle button: toggle_refresh awaits interaction.response.defer
ToggleStart ==
    /\ Idle
    /\ view # None
    /\ view.message = "set"
    /\ pendingToggles < MaxToggles
    /\ pendingToggles' = pendingToggles + 1
    /\ UNCHANGED <<regVars, cache, now, lastOp, reqObs, cacheObs, schedVars, view,
                   loops, lastPush, watch>>

\* a switch to off that leaves the task alone
toggle_flip_mut_no_cancel(v, ls) ==
    IF v.auto_refresh
    THEN [view |-> [v EXCEPT !.auto_refresh = FALSE], loops |-> ls]
    ELSE [view |-> [v EXCEPT !.auto_refresh = TRUE, !.refresh_task = Len(ls) + 1],
          loops |-> Append(ls, NewLoop)]

\* the if statement of toggle_refresh: on to off cancels refresh_task, off to
\* on creates a new task and keeps it in refresh_task
toggle_flip(v, ls) ==
    IF v.auto_refresh
    THEN [view |-> [v EXCEPT !.auto_refresh = FALSE],
          loops |-> Cancel(ls, v.refresh_task)]
    ELSE [view |-> [v EXCEPT !.auto_refresh = TRUE, !.refresh_task = Len(ls) + 1],
          loops |-> Append(ls, NewLoop)]

\* toggle_refresh after defer: when defer raised the handler ends there; else
\* the switch, create_updated_embeds, and the edit of the response
ToggleRun(defer_ok, conn_raises, failures, box_raises) ==
    /\ Idle
    /\ pendingToggles > 0
    /\ pendingToggles' = pendingToggles - 1
    /\ IF ~defer_ok
       THEN UNCHANGED <<view, loops, cache>>
       ELSE /\ view.auto_refresh \/ Len(loops) < MaxLoops
            /\ LET f == toggle_flip(view, loops)
                   e == create_updated_embeds(f.view, conn_raises, failures, box_raises)
               IN /\ view' = [f.view EXCEPT !.league = e.league]
                  /\ loops' = f.loops
                  /\ cache' = e.cache
    /\ UNCHANGED <<regVars, now, lastOp, reqObs, cacheObs, schedVars, lastPush, watch>>

\* manual_refresh that starts the loop anew
ManualRefresh_mut_restart(conn_raises, failures, box_raises) ==
    /\ Idle
    /\ view # None
    /\ view.message = "set"
    /\ LET e == create_updated_embeds(view, conn_raises, failures, box_raises)
       IN /\ view' = [view EXCEPT !.league = e.league, !.auto_refresh = TRUE,
                                  !.manual = Watched("manual", view.manual,
                                      [error |-> e.embeds.error,
                                       auto_refresh |-> view.auto_refresh])]
          /\ cache' = e.cache
    /\ loops' = [i \in DOMAIN loops |->
                    IF loops[i].pc = "done" THEN loops[i]
                    ELSE [loops[i] EXCEPT !.consecutive_errors = 0]]
    /\ UNCHANGED <<regVars, now, lastOp, reqObs, cacheObs, schedVars,
                   pendingToggles, lastPush, watch>>

\* manual_refresh after defer: create_updated_embeds and the edit of the response
ManualRefresh(conn_raises, failures, box_raises) ==
    /\ Idle
    /\ view # None
    /\ view.message = "set"
    /\ LET e == create_updated_embeds(view, conn_raises, failures, box_raises)
       IN /\ view' = [view EXCEPT !.league = e.league,
                                  !.manual = Watched("manual", view.manual,
                                      [error |-> e.embeds.error,
                                       auto_refresh |-> view.auto_refresh])]
          /\ cache' = e.cache
    /\ UNCHANGED <<regVars, now, lastOp, reqObs, cacheObs, schedVars, loops,
                   pendingToggles, lastPush, watch>>

\* how many times on_timeout ran, counted to 2 (observation)
Timeouts(v) ==
    IF "teardown" \notin watch THEN v.timeouts
    ELSE IF v.timeouts < 2 THEN v.timeouts + 1 ELSE 2

\* on_timeout that leaves the task alone
OnTimeout_mut_no_cancel ==
    /\ Idle
    /\ view # None
    /\ view.message = "set"
    /\ view' = [view EXCEPT !.auto_refresh = FALSE, !.timeouts = Timeouts(view)]
    /\ UNCHANGED <<regVars, cache, now, lastOp, reqObs, cacheObs, schedVars, loops,
                   pendingToggles, lastPush, watch>>

\* on_timeout, which the library calls when the timeout of a view runs out
OnTimeout ==
    /\ Idle
    /\ view # None
    /\ view.message = "set"
    /\ loops' = Cancel(loops, view.refresh_task)
    /\ view' = [view EXCEPT !.auto_refresh = FALSE, !.timeouts = Timeouts(view)]
    /\ UNCHANGED <<regVars, cache, now, lastOp, reqObs, cacheObs, schedVars,
                   pendingToggles, lastPush, watch>>

\* ------------------------------------- one scoreboard message and its user
\* what the provider does to a request: answers; fails for the user's league
\* and answers for the environment's; fails on every attempt
Fetches == {<<FALSE, 0>>, <<TRUE, 0>>, <<TRUE, API_RETRY_ATTEMPTS>>}
EditOutcomes == {"ok", "NotFound", "Forbidden", "HTTPException", "Exception"}

NextPoll ==
    \/ RegisterLeague("1", <<"A">>, 10, None, None,
                      [raises |-> FALSE, has_teams |-> TRUE, name |-> None])
    \/ \E a \in BOOLEAN, f \in Fetches : Scoreboard("1", a, f[1], f[2])
    \/ \E ok \in BOOLEAN : SendDone(ok)
    \/ \E i \in DOMAIN loops, f \in Fetches, b \in BOOLEAN : LoopWake(i, f[1], f[2], b)
    \/ \E i \in DOMAIN loops, o \in EditOutcomes : LoopEditDone(i, o)
    \/ \E f \in Fetches, b \in BOOLEAN : ManualRefresh(f[1], f[2], b)
    \/ Tick(TTL)

SpecPoll == Init({"push"}) /\ [][NextPoll]_vars

\* C8: the payload an auto-refresh iteration pushes is made from a league
\* fetched from the provider in that iteration, never from the shared cache,
\* also when the cache holds a fresh entry for the user's league.
C8_IterationBypassesCache ==
    (lastPush # None /\ ~lastPush.error)
        => (/\ lastPush.source # "cache"
            /\ lastPush.league.fetched_at = lastPush.made_at)

\* ------------------------------------- the loop and its failed iterations
NextPollErrors ==
    \/ \E f \in Fetches : Scoreboard("1", TRUE, f[1], f[2])
    \/ SendDone(TRUE)
    \/ \E i \in DOMAIN loops, f \in Fetches : LoopWake(i, f[1], f[2], FALSE)
    \/ \E i \in DOMAIN loops, o \in EditOutcomes : LoopEditDone(i, o)
    \/ Tick(TTL)

SpecPollErrors == Init({"streak"}) /\ [][NextPollErrors]_vars

\* C1: with auto-refresh on, once max_consecutive_errors iterations in a row
\* have failed (fetch, render or push), auto_refresh is off and the loop has
\* stopped.
C1_DisablesAtThreshold ==
    \A i \in DOMAIN loops :
       loops[i].failStreak >= max_consecutive_errors
          => (~view.auto_refresh /\ loops[i].pc = "done")

\* C27: an iteration that failed (fetch, render or push) leaves
\* consecutive_errors one above its value at the start of the iteration, and
\* below max_consecutive_errors the loop goes on to its next sleep.
C27_FailureCountsOne ==
    \A i \in DOMAIN loops :
        (/\ loops[i].result = "failed"
         /\ loops[i].pc # "edit"
         /\ loops[i].errors_before + 1 < max_consecutive_errors)
            => /\ loops[i].consecutive_errors = loops[i].errors_before + 1
               /\ loops[i].pc = "sleep" \/ loops[i].cancelled \/ ~view.auto_refresh

\* C28: after an iteration whose fetch, render and push succeeded
\* consecutive_errors is 0, and an iteration that failed leaves it no lower
\* than it was at the start of the iteration.
C28_ResetOnlyOnSuccess ==
    \A i \in DOMAIN loops :
        loops[i].pc # "edit"
            => /\ loops[i].result = "ok" => loops[i].consecutive_errors = 0
               /\ loops[i].result = "failed"
                     => loops[i].consecutive_errors >= loops[i].errors_before

\* ------------------------------- the buttons of one scoreboard message
NextToggle ==
    \/ \E f \in Fetches : Scoreboard("1", TRUE, f[1], f[2])
    \/ \E ok \in BOOLEAN : SendDone(ok)
    \/ \E i \in DOMAIN loops, f \in Fetches : LoopWake(i, f[1], f[2], FALSE)
    \/ \E i \in DOMAIN loops, o \in EditOutcomes : LoopEditDone(i, o)
    \/ \E i \in DOMAIN loops : LoopCancelled(i)
    \/ ToggleStart
    \/ \E ok \in BOOLEAN, f \in Fetches : ToggleRun(ok, f[1], f[2], FALSE)
    \/ \E f \in Fetches : ManualRefresh(f[1], f[2], FALSE)
    \/ OnTimeout
    \/ Tick(TTL)

SpecToggle == Init({}) /\ [][NextToggle]_vars

\* C9: whatever the order of session creation, toggles (two in flight
\* included), manual refreshes, the timeout and the loop leaving by itself, at
\* most one loop task of the view can still fetch or push, and it is the one
\* the view keeps in refresh_task.
C9_AtMostOneLiveLoop ==
    \A i \in DOMAIN loops : Live(loops[i]) => i = view.refresh_task

\* auto-refresh was turned on again while the cancelled loop has not yet
\* ended: the new loop is live, the old one is not
C9_Witness ==
    /\ Len(loops) >= 2
    /\ view.auto_refresh
    /\ loops[1].cancelled /\ loops[1].pc # "done"
    /\ Live(loops[2])
    /\ pendingToggles = 0

\* C37: in every state of a view, auto_refresh is True if and only if one of
\* its loop tasks can still fetch or push: a loop that has ended, for whatever
\* reason, leaves auto_refresh False.
C37_AutoRefreshIffLoopLive ==
    view # None => (view.auto_refresh <=> \E i \in DOMAIN loops : Live(loops[i]))

\* ------------------------------------------------ teardown of the view
SpecTeardown == Init({"teardown"}) /\ [][NextToggle]_vars

SpecManual == Init({"manual"}) /\ [][NextToggle]_vars

\* C29: a manual refresh, made with auto-refresh on or off and whether its
\* fetch succeeds or fails, leaves auto_refresh, refresh_task and every loop
\* task (its consecutive_errors included) as they were.
C29_ManualRefreshLeavesLoop ==
    [][\A f \in Fetches :
          ManualRefresh(f[1], f[2], FALSE)
              => /\ loops' = loops
                 /\ view'.auto_refresh = view.auto_refresh
                 /\ view'.refresh_task = view.refresh_task
                 /\ view'.manual.auto_refresh = view.auto_refresh
                 /\ pendingToggles' = pendingToggles]_vars

\* C29's case: a manual refresh whose fetch failed was made while
\* auto-refresh was off and the loop had ended
C29_Witness ==
    /\ view # None
    /\ view.manual # None
    /\ view.manual.error
    /\ ~view.manual.auto_refresh
    /\ ~view.auto_refresh
    /\ \A i \in DOMAIN loops : loops[i].pc = "done"

\* --------------------------------------------------------- page buttons
get_total_pages(v) ==
    IF v.all_embeds <= 2 THEN 1
    ELSE IF v.all_embeds - 2 > 1 THEN v.all_embeds - 2 ELSE 1

\* next_page without the test of the last page
next_page_mut_no_bound(v) ==
    [v EXCEPT !.current_page = @ + 1, !.button = [name |-> "next", moved |-> TRUE]]

\* next_page, to its await of edit_message
next_page(v) ==
    IF v.current_page < get_total_pages(v) - 1
    THEN [v EXCEPT !.current_page = @ + 1,
                   !.button = [name |-> "next", moved |-> TRUE]]
    ELSE [v EXCEPT !.button = [name |-> "next", moved |-> FALSE]]

\* previous_page, to its await of edit_message
previous_page(v) ==
    IF v.current_page > 0
    THEN [v EXCEPT !.current_page = @ - 1,
                   !.button = [name |-> "previous", moved |-> TRUE]]
    ELSE [v EXCEPT !.button = [name |-> "previous", moved |-> FALSE]]

NextPage ==
    /\ Idle
    /\ view # None
    /\ view.message = "set"
    /\ view' = next_page(view)
    /\ UNCHANGED <<regVars, cache, now, lastOp, reqObs, cacheObs, schedVars, loops,
                   pendingToggles, lastPush, watch>>

PreviousPage ==
    /\ Idle
    /\ view # None
    /\ view.message = "set"
    /\ view' = previous_page(view)
    /\ UNCHANGED <<regVars, cache, now, lastOp, reqObs, cacheObs, schedVars, loops,
                   pendingToggles, lastPush, watch>>

NextPages ==
    \/ \E f \in Fetches : Scoreboard("1", TRUE, f[1], f[2])
    \/ SendDone(TRUE)
    \/ \E i \in DOMAIN loops, f \in Fetches : LoopWake(i, f[1], f[2], FALSE)
    \/ \E i \in DOMAIN loops : LoopEditDone(i, "ok")
    \/ \E f \in Fetches : ManualRefresh(f[1], f[2], FALSE)
    \/ NextPage
    \/ PreviousPage
    \/ Tick(TTL)

SpecPages == Init({"pages"}) /\ [][NextPages]_vars

\* C30: current_page stays within 0..get_total_pages()-1 through page
\* buttons, auto-refresh iterations and manual refreshes; next_page on the
\* last page and previous_page on page 0 leave it as it is; a page button
\* moves by one page at most and makes no request: the cache and the league
\* of the view stay as they were.
C30_PageStaysInRange ==
    /\ [](view # None =>
            /\ view.current_page >= 0
            /\ view.current_page <= get_total_pages(view) - 1)
    /\ [][(NextPage \/ PreviousPage)
            => /\ cache' = cache
               /\ view'.league = view.league
               /\ NextPage /\ view.current_page = get_total_pages(view) - 1
                     => view'.current_page = view.current_page
               /\ NextPage /\ view.current_page < get_total_pages(view) - 1
                     => view'.current_page = view.current_page + 1
               /\ PreviousPage /\ view.current_page = 0
                     => view'.current_page = 0
               /\ PreviousPage /\ view.current_page > 0
                     => view'.current_page = view.current_page - 1]_vars
    /\ [][~(NextPage \/ PreviousPage) /\ view # None
            => view'.current_page = view.current_page]_vars

\* C30's case: on the last of three pages the next button was pressed and the
\* page stayed
C30_Witness ==
    /\ view # None
    /\ view.all_embeds = 5
    /\ view.current_page = 2
    /\ view.button = [name |-> "next", moved |-> FALSE]

StopBackgroundRefresh ==
    /\ Idle
    /\ IF bg.refresh_task # 0
       THEN /\ bgTasks' = [bgTasks EXCEPT ![bg.refresh_task].cancelled =
                              @ \/ bgTasks[bg.refresh_task].pc # "done"]
            /\ bg' = [bg EXCEPT !.is_running = FALSE]
       ELSE UNCHANGED <<bg, bgTasks>>
    /\ UNCHANGED <<regVars, cache, now, lastOp, reqObs, cacheObs, keysChanged, pollVars>>

\* a loop that ends on an exception of the pass
LoopLevelHandler_mut_break(t) == [FreshPass(t) EXCEPT !.pc = "done"]

\* except Exception of _refresh_loop: log, then sleep(300)
LoopLevelHandler(t) == [t EXCEPT !.pc = "cooldown", !.outcome = "raised"]

\* an exception leaves _refresh_common_data (one raised outside its try
\* blocks, that is in one of its except handlers) and reaches _refresh_loop
BgPassRaises(i) ==
    /\ bgTasks[i].pc = "iter"
    /\ bgTasks' = [bgTasks EXCEPT ![i] = LoopLevelHandler(@)]
    /\ keysChanged' = FALSE
    /\ UNCHANGED <<regVars, cache, now, lastOp, reqObs, cacheObs, bg, pollVars>>

\* sleep(300) is over: back to the top of while True, into sleep(180)
BgCooldownDone(i) ==
    /\ Idle
    /\ bgTasks[i].pc = "cooldown"
    /\ ~bgTasks[i].cancelled
    /\ bgTasks' = [bgTasks EXCEPT ![i] = [@ EXCEPT !.pc = "sleep", !.cooled = TRUE]]
    /\ UNCHANGED <<regVars, cache, now, lastOp, reqObs, cacheObs, keysChanged, bg,
                   pollVars>>

\* the awaits of the loop: sleep(180), sleep(2) and sleep(300)
AtSleep(t) == t.pc \in {"sleep", "pacing", "cooldown"}

\* CancelledError is raised at the await the task is suspended in.  No except
\* Exception catches it; from sleep(180) and sleep(2) it reaches except
\* CancelledError of _refresh_loop (break), from sleep(300) it leaves the
\* handler: the task ends (of its last pass the record keeps only whether the
\* task was cancelled in it)
BgCancelled(i) ==
    /\ Idle
    /\ bgTasks[i].cancelled
    /\ AtSleep(bgTasks[i])
    /\ bgTasks' = [bgTasks EXCEPT ![i] =
          [FreshPass(@) EXCEPT !.pc = "done",
                               !.outcome = IF bgTasks[i].pc = "pacing"
                                           THEN "cancelled" ELSE "none"]]
    /\ UNCHANGED <<regVars, cache, now, lastOp, reqObs, cacheObs, keysChanged, bg,
                   pollVars>>

\* what the task does by itself once the event loop runs it
BgTaskStep(i) ==
    /\ i \in DOMAIN bgTasks
    /\ \/ BgWake(i)
       \/ \E fr \in BOOLEAN, rr \in BOOLEAN : BgIterate(i, fr, rr)
       \/ BgPaceDone(i)
       \/ BgCooldownDone(i)
       \/ BgCancelled(i)

LoopLeagues == {<<"1", 10>>}

NextLoop ==
    \/ \E p \in LoopLeagues :
          RegisterLeague(p[1], <<"A">>, p[2], None, None,
                         [raises |-> FALSE, has_teams |-> TRUE, name |-> None])
    \/ \E p \in LoopLeagues : RemoveLeague(p[1], LeagueKey(p[2], p[1]))
    \/ StartBackgroundRefresh
    \/ StopBackgroundRefresh
    \/ \E i \in DOMAIN bgTasks : BgTaskStep(i)
    \/ \E i \in DOMAIN bgTasks : BgPassRaises(i)

\* the event loop runs every task that is ready: timers fire and a task that
\* can go on does
SpecLoop ==
    /\ Init({})
    /\ [][NextLoop]_vars
    /\ \A i \in 1..MaxBgTasks : WF_vars(BgTaskStep(i))

\* C14: the loop of a refresh task ends only when the task was cancelled by
\* stop_background_refresh, whatever failed in its passes; and after an
\* exception that reached the loop, the task sleeps the cooldown and then runs
\* a further pass, unless it is cancelled meanwhile.
C14_LoopEndsOnlyOnCancel ==
    /\ [](\A i \in DOMAIN bgTasks : bgTasks[i].pc = "done" => bgTasks[i].cancelled)
    /\ \A i \in 1..MaxBgTasks :
          (i \in DOMAIN bgTasks /\ bgTasks[i].pc = "cooldown")
             ~> (i \in DOMAIN bgTasks
                   /\ (bgTasks[i].pc = "iter" \/ bgTasks[i].cancelled))

\* C14's case: a task that has been through the cooldown ends a further pass,
\* in which a fetch failed
C14_Witness ==
    \E i \in DOMAIN bgTasks :
       /\ bgTasks[i].cooled
       /\ ~bgTasks[i].cancelled
       /\ bgTasks[i].outcome = "completed"
       /\ bgTasks[i].failed # {}

\* C15: a refresh task ends only from one of its sleeps, and cancel() reaches
\* it only there; a fetch that succeeded was stored in the cache in the same
\* uninterrupted step, so no task ends between a fetch and its store.
C15_CancelOnlyAtSleep ==
    [][\A i \in DOMAIN bgTasks :
          LET t == bgTasks[i]
              t2 == bgTasks'[i]
          IN /\ (t2.pc = "done" /\ t.pc # "done") => (AtSleep(t) /\ t.cancelled)
             /\ (t2.cancelled /\ ~t.cancelled) => AtSleep(t)
             /\ \A lk \in t2.fetched \ t.fetched :
                   LET key == UserCacheKey(leagues[lk].owner_id, None)
                   IN /\ key \in DOMAIN cache'
                      /\ cache'[key] = [data |-> ReadTeams(Connect(leagues[lk])), timestamp |-> now]]_vars

\* C15's case: a task was cancelled during the pacing delay that follows a
\* fetch and has ended, with the league it fetched in the cache
C15_Witness ==
    \E i \in DOMAIN bgTasks :
       /\ bgTasks[i].pc = "done"
       /\ bgTasks[i].outcome = "cancelled"
       /\ \E lk \in DOMAIN leagues :
             LET key == UserCacheKey(leagues[lk].owner_id, None)
             IN /\ key \in DOMAIN cache
                /\ cache[key].data.league_id = leagues[lk].league_id

\* C16: every connection a request makes after a cache miss is tried at most API_RETRY_ATTEMPTS
\* times; a connection that failed was tried API_RETRY_ATTEMPTS times before
\* it was given up, and then the request raised ConnectionError; a request
\* raises only when a connection failed on all its attempts.
C16_ConnectRetries ==
    (lastReq.attempts + lastReq.user_attempts > 0)
        => (/\ lastReq.attempts <= API_RETRY_ATTEMPTS
            /\ lastReq.user_attempts <= API_RETRY_ATTEMPTS
            /\ lastReq.user_failed
                  => (lastReq.user_attempts = API_RETRY_ATTEMPTS /\ lastReq.raised)
            /\ lastReq.raised => lastReq.attempts = API_RETRY_ATTEMPTS)

\* C17: the teams were read on every handle a request returns and on every
\* handle in the cache.
C17_HandlesAreRead ==
    /\ lastReq.league # None => lastReq.league.teams_read
    /\ \A k \in DOMAIN cache : cache[k].data.teams_read

\* --------------------------------- one user with up to three leagues
ManyLeagueIds == {10, 20, 30}

NextDefaults ==
    \/ \E l \in ManyLeagueIds, r \in {x \in RemoteAnswers : x.name = None} :
          RegisterLeague("1", <<"A">>, l, None, None, r)
    \/ \E l \in ManyLeagueIds : SetDefaultLeague("1", LeagueKey(l, "1"))
    \/ \E l \in ManyLeagueIds : RemoveLeague("1", LeagueKey(l, "1"))

SpecDefaults == Init({"registry"}) /\ [][NextDefaults]_vars

\* C18: a register call that succeeds makes the league the user's default
\* when the user had no league before the call, and leaves the default as it
\* was when the user had one.
C18_FirstRegistrationIsDefault ==
    [][(lastOp'.op = "register" /\ lastOp'.result = "ok")
         => LET u == lastOp'.user
                had == u \in DOMAIN users /\ users[u].leagues # <<>>
            IN /\ ~had => users'[u].default_league = lastOp'.key
               /\ had => users'[u].default_league = users[u].default_league]_vars

\* C18's case: a later league was registered and the default is still the
\* league registered first
C18_Witness ==
    /\ lastOp.op = "register" /\ lastOp.result = "ok"
    /\ lastOp.before # None
    /\ lastOp.before # lastOp.key
    /\ users[lastOp.user].default_league = lastOp.before
    /\ users[lastOp.user].leagues[1] = lastOp.before
    /\ Len(users[lastOp.user].leagues) >= 2

NextRenames ==
    \/ \E u \in Users, n \in InputNames, l \in LeagueIds, r \in RemoteAnswers :
          RegisterLeague(u, n, l, None, None, r)
    \/ \E u \in Users, l \in LeagueIds : RemoveLeague(u, LeagueKey(l, u))

SpecRenames == Init({"registry", "names"}) /\ [][NextRenames]_vars

\* how often key k occurs in the sequence q
Occurrences(q, k) == Cardinality({i \in DOMAIN q : q[i] = k})

\* C20: after a league is registered again for the same league id and user,
\* both validations having succeeded, there is one config under the key, the
\* key is once in the user's leagues, and the stored name is the name passed
\* to the latest call.
C20_ReRegisterKeepsOneWithLatestName ==
    (lastOp.op = "register" /\ lastOp.result = "ok" /\ lastOp.again)
        => /\ lastOp.key \in DOMAIN leagues
           /\ Occurrences(leagueOrder, lastOp.key) = 1
           /\ Occurrences(users[lastOp.user].leagues, lastOp.key) = 1
           /\ leagues[lastOp.key].name = lastOp.name

\* ------------------------------------------------ find_leagues_by_name
\* str.lower() on the characters the names are made of
LowerChar(c) == IF c = "A" THEN "a" ELSE IF c = "B" THEN "b" ELSE c
Lower(s) == [i \in 1..Len(s) |-> LowerChar(s[i])]

\* str.strip(): leading and trailing blanks removed
RECURSIVE LStrip(_)
LStrip(s) == IF s # <<>> /\ Head(s) = " " THEN LStrip(Tail(s)) ELSE s
RECURSIVE RStrip(_)
RStrip(s) ==
    IF s # <<>> /\ s[Len(s)] = " " THEN RStrip(SubSeq(s, 1, Len(s) - 1)) ELSE s
Strip(s) == RStrip(LStrip(s))

\* the in operator of str: a occurs in b as a substring
StrIn(a, b) ==
    \E i \in 1..(Len(b) + 1) :
        i + Len(a) - 1 <= Len(b) /\ SubSeq(b, i, i + Len(a) - 1) = a

\* the dict find_leagues_by_name and get_all_leagues build for one league
LeagueEntry(league_key) ==
    [key |-> league_key, name |-> leagues[league_key].name,
     league_id |-> leagues[league_key].league_id,
     owner_id |-> leagues[league_key].owner_id,
     year |-> leagues[league_key].year]

\* one turn of the loop of find_leagues_by_name with every match appended
find_step_mut_append(matches, search_name, league_key) ==
    LET league_actual_name == Strip(Lower(leagues[league_key].name))
    IN IF \/ search_name = league_actual_name
          \/ StrIn(search_name, league_actual_name)
          \/ StrIn(league_actual_name, search_name)
       THEN Append(matches, LeagueEntry(league_key))
       ELSE matches

\* one turn of the loop of find_leagues_by_name
find_step(matches, search_name, league_key) ==
    LET league_actual_name == Strip(Lower(leagues[league_key].name))
    IN IF search_name = league_actual_name
       THEN <<LeagueEntry(league_key)>> \o matches
       ELSE IF \/ StrIn(search_name, league_actual_name)
               \/ StrIn(league_actual_name, search_name)
       THEN Append(matches, LeagueEntry(league_key))
       ELSE matches

\* the loop over self.data['leagues'].items(), in the order of the dict
RECURSIVE find_loop(_, _, _)
find_loop(matches, search_name, keys) ==
    IF keys = <<>> THEN matches
    ELSE find_loop(find_step(matches, search_name, Head(keys)), search_name,
                   Tail(keys))

find_leagues_by_name(league_name) ==
    find_loop(<<>>, Strip(Lower(league_name)), leagueOrder)

\* patterns a user may type in /compare_teams
Patterns == {<<"a">>, <<"A", "B">>, <<" ", "a", " ">>, <<"b">>, <<"c">>, <<>>}

FindLeaguesByName(league_name) ==
    /\ Idle
    /\ lastOp' = Observe("find", None, league_name,
                         find_leagues_by_name(league_name))
    /\ UNCHANGED <<regVars, cache, now, reqObs, cacheObs, schedVars, pollVars>>

NextFind ==
    \/ \E u \in Users, n \in InputNames, l \in LeagueIds,
          r \in {x \in RemoteAnswers : ~x.raises /\ x.has_teams} :
          RegisterLeague(u, n, l, None, None, r)
    \/ \E u \in Users, l \in LeagueIds : RemoveLeague(u, LeagueKey(l, u))
    \/ \E p \in Patterns : FindLeaguesByName(p)

SpecFind == Init({"registry"}) /\ [][NextFind]_vars

\* the name of an entry equals the pattern, case and outer blanks aside
IsExact(entry, pattern) == Strip(Lower(entry.name)) = Strip(Lower(pattern))

\* C21: in the list find_leagues_by_name returns, no league that matches the
\* pattern only in part stands before a league whose name equals the pattern
\* case-insensitively.
C21_ExactBeforeSubstring ==
    lastOp.op = "find"
        => \A i, j \in DOMAIN lastOp.result :
              (i < j /\ IsExact(lastOp.result[j], lastOp.key))
                  => IsExact(lastOp.result[i], lastOp.key)

\* C21's case: a league that matches in part was registered before a league
\* that matches exactly, and the exact one is returned first
C21_Witness ==
    /\ lastOp.op = "find"
    /\ Len(lastOp.result) >= 2
    /\ IsExact(lastOp.result[1], lastOp.key)
    /\ ~IsExact(lastOp.result[2], lastOp.key)
    /\ \E i, j \in DOMAIN leagueOrder :
          /\ i < j
          /\ leagueOrder[i] = lastOp.result[2].key
          /\ leagueOrder[j] = lastOp.result[1].key

\* C22: find_leagues_by_name returns the registered leagues whose name equals
\* the pattern or contains it as a substring, each once, and no other league.
C22_ReturnsExactlyTheMatches ==
    lastOp.op = "find"
        => /\ {lastOp.result[i].key : i \in DOMAIN lastOp.result}
                = {k \in DOMAIN leagues :
                      StrIn(Strip(Lower(lastOp.key)), Strip(Lower(leagues[k].name)))}
           /\ Len(lastOp.result) = Cardinality({lastOp.result[i].key : i \in DOMAIN lastOp.result})

\* -------------------------------------------------- get_user_leagues
\* get_user_leagues with the list turned round
get_user_leagues_mut_reversed(user_id) ==
    IF user_id \notin DOMAIN users THEN <<>>
    ELSE LET present == SelectSeq(users[user_id].leagues,
                                  LAMBDA k : k \in DOMAIN leagues)
         IN [i \in 1..Len(present) |-> leagues[present[Len(present) + 1 - i]]]

get_user_leagues(user_id) ==
    IF user_id \notin DOMAIN users THEN <<>>
    ELSE LET present == SelectSeq(users[user_id].leagues,
                                  LAMBDA k : k \in DOMAIN leagues)
         IN [i \in 1..Len(present) |-> leagues[present[i]]]

\* the keys of the configs get_user_leagues returns, in its order
ListedKeys(user_id) ==
    LET l == get_user_leagues(user_id)
    IN [i \in 1..Len(l) |-> LeagueKey(l[i].league_id, l[i].owner_id)]

\* every config get_user_leagues returns is the one stored under its key
ListedAreStored ==
    \A u \in Users :
        \A i \in DOMAIN get_user_leagues(u) :
            /\ ListedKeys(u)[i] \in DOMAIN leagues
            /\ get_user_leagues(u)[i] = leagues[ListedKeys(u)[i]]

\* C23: set_default_league returns False and changes nothing of the Registry
\* or the file when the key is not in the user's leagues (unknown user and
\* unknown key included); otherwise it returns True and the key is the
\* user's default after the call.
C23_SetDefaultOnlyOfOwnLeague ==
    [][(lastOp'.op = "set_default")
         => LET u == lastOp'.user
                k == lastOp'.key
            IN IF u \in DOMAIN users /\ SeqContains(users[u].leagues, k)
               THEN /\ lastOp'.result = "True"
                    /\ users'[u].default_league = k
                    /\ disk'.users[u].default_league = k
               ELSE /\ lastOp'.result = "False"
                    /\ UNCHANGED regVars]_vars

\* C23's case: a user with a default asked for a league that another user
\* registered; the call returned False and the default is one of the user's own
C23_Witness ==
    /\ lastOp.op = "set_default" /\ lastOp.result = "False"
    /\ lastOp.key \in DOMAIN leagues
    /\ lastOp.user \in DOMAIN users
    /\ users[lastOp.user].default_league # None
    /\ users[lastOp.user].default_league # lastOp.key

\* C25: remove_league returns False and changes nothing when the key is not in
\* the user's leagues; when it returns True the key is no longer in the
\* user's leagues, a config is deleted only under that key and only when the
\* caller is its owner, and no other user's entry changes.
C25_RemoveTouchesOnlyOwn ==
    [][(lastOp'.op = "remove")
         => LET u == lastOp'.user
                k == lastOp'.key
            IN IF u \in DOMAIN users /\ SeqContains(users[u].leagues, k)
               THEN /\ lastOp'.result = "True"
                    /\ ~SeqContains(users'[u].leagues, k)
                    /\ DOMAIN users' = DOMAIN users
                    /\ \A u2 \in DOMAIN users \ {u} : users'[u2] = users[u2]
                    /\ \A k2 \in DOMAIN leagues :
                          IF k2 = k /\ leagues[k2].owner_id = u
                          THEN k2 \notin DOMAIN leagues'
                          ELSE k2 \in DOMAIN leagues' /\ leagues'[k2] = leagues[k2]
                    /\ DOMAIN leagues' \subseteq DOMAIN leagues
               ELSE /\ lastOp'.result = "False"
                    /\ UNCHANGED regVars]_vars

\* C25's case: one user removed a league while the other user has a league of
\* the same league id, which is still registered and still that user's default
C25_Witness ==
    /\ lastOp.op = "remove" /\ lastOp.result = "True"
    /\ lastOp.key \notin DOMAIN leagues
    /\ \E u2 \in DOMAIN users \ {lastOp.user} :
          /\ LeagueKey(lastOp.key[1], u2) \in DOMAIN leagues
          /\ users[u2].default_league = LeagueKey(lastOp.key[1], u2)

\* C26: get_user_leagues lists the user's registered leagues in the order of
\* registration: a successful register of a new key puts it at the end, a
\* register of a key already there leaves the order, a remove that returns
\* True takes the key out, and every other call leaves every list as it was.
C26_ListedInRegistrationOrder ==
    /\ [][\A u \in Users :
            IF lastOp'.op = "register" /\ lastOp'.result = "ok" /\ lastOp'.user = u
            THEN /\ SeqContains(ListedKeys(u)', lastOp'.key)
                 /\ ListedKeys(u)' =
                       IF SeqContains(ListedKeys(u), lastOp'.key) THEN ListedKeys(u)
                       ELSE Append(ListedKeys(u), lastOp'.key)
            ELSE IF lastOp'.op = "remove" /\ lastOp'.result = "True"
                    /\ lastOp'.user = u
            THEN ListedKeys(u)' =
                    SelectSeq(ListedKeys(u), LAMBDA x : x # lastOp'.key)
            ELSE ListedKeys(u)' = ListedKeys(u)]_vars
    /\ []ListedAreStored

\* C26's case: a user with two leagues registered the first of them again and
\* it is still the first of the list
C26_Witness ==
    /\ lastOp.op = "register" /\ lastOp.result = "ok"
    /\ Len(ListedKeys(lastOp.user)) = 2
    /\ ListedKeys(lastOp.user)[1] = lastOp.key

\* ----------------------------------------------- get_league_connection
\* a caller asks the Registry for a connection; raises: the League
\* constructor raises.  The call returns a handle or None and never raises:
\* the constructor is called inside try/except Exception
GetLeagueConnection(user_id, league_key, raises) ==
    /\ Idle
    /\ lastOp' = [Observe("connect", user_id, league_key,
                          get_league_connection(user_id, league_key, raises))
                  EXCEPT !.valid = ~raises, !.before = DefaultOf(user_id)]
    /\ UNCHANGED <<regVars, cache, now, reqObs, cacheObs, schedVars, pollVars>>

NextConnect ==
    \/ \E u \in Users, l \in LeagueIds, c \in CredPairs,
          r \in {x \in RemoteAnswers : x.name = None} :
          RegisterLeague(u, <<"A">>, l, c[1], c[2], r)
    \/ \E u \in Users, l \in LeagueIds : RemoveLeague(u, LeagueKey(l, u))
    \/ \E u \in Users, k \in AllLeagueKeys \cup {None}, raises \in BOOLEAN :
          GetLeagueConnection(u, k, raises)

SpecConnect == Init({"registry"}) /\ [][NextConnect]_vars

\* C24: get_league_connection resolves the user's default when no key is
\* given, and returns None when the user is unknown, when the user has no
\* default and no key is given, when the key names no registered league, or
\* when the connection fails.
C24_ConnectionOrAbsent ==
    lastOp.op = "connect"
        => LET u == lastOp.user
               key == IF lastOp.key # None THEN lastOp.key ELSE lastOp.before
           IN /\ (\/ u \notin DOMAIN users
                  \/ key = None
                  \/ key \notin DOMAIN leagues
                  \/ ~lastOp.valid) => lastOp.result = None
              /\ (lastOp.result # None /\ lastOp.key = None)
                    => /\ lastOp.result.league_id = leagues[lastOp.before].league_id
                       /\ lastOp.result.year = leagues[lastOp.before].year

\* ------------------------------------------------ restart of the process
\* json.load of what json.dump wrote.  The data holds dicts with str keys,
\* lists, str, int and None only, which JSON gives back as they were, in the
\* order of the dicts
load_data(file) ==
    [users |-> file.users, leagues |-> file.leagues, order |-> file.order]

\* the process ends and starts again: LeagueManager() loads the file, the
\* module makes a new ESPNCache and a new BackgroundRefreshManager, and no
\* view or task of the old process is left
Restart ==
    /\ Idle
    /\ users' = load_data(disk).users
    /\ leagues' = load_data(disk).leagues
    /\ leagueOrder' = load_data(disk).order
    /\ cache' = EmptyDict
    /\ lastOp' = Observe("restart", None, None, Cardinality(DOMAIN cache))
    /\ UNCHANGED <<disk, now, reqObs, cacheObs, schedVars, pollVars>>

NextRestart ==
    \/ \E u \in Users, l \in LeagueIds, r \in {x \in RemoteAnswers : x.name = None} :
          RegisterLeague(u, <<"A">>, l, None, None, r)
    \/ \E u \in Users, l \in LeagueIds : SetDefaultLeague(u, LeagueKey(l, u))
    \/ \E u \in Users, l \in LeagueIds : RemoveLeague(u, LeagueKey(l, u))
    \/ \E u \in Users : GetLeague(u, None, FALSE, 0)
    \/ Restart

SpecRestart == Init({"registry"}) /\ [][NextRestart]_vars

\* C32: after every register_league, set_default_league and remove_league the
\* file holds the data of the Registry as it is in memory, so LeagueManager()
\* after a restart has the same users, lists, defaults and configs; the new
\* process starts with an empty ESPNCache.
C32_FileHoldsRegistry ==
    /\ [](disk = save_data(users, leagues, leagueOrder))
    /\ [][Restart => /\ users' = users
                     /\ leagues' = leagues
                     /\ leagueOrder' = leagueOrder
                     /\ cache' = EmptyDict]_vars

\* C32's case: the process restarted with entries in the cache; the Registry
\* has a user with two leagues whose default is the second, the cache is empty
C32_Witness ==
    /\ lastOp.op = "restart"
    /\ lastOp.result > 0
    /\ cache = EmptyDict
    /\ \E u \in DOMAIN users :
          /\ Len(users[u].leagues) = 2
          /\ users[u].default_league = users[u].leagues[2]

\* ------------------------------------------- start and stop of the loop
\* a refresh task that can still run a pass
LiveTask(t) == t.pc # "done" /\ ~t.cancelled

\* C33: whatever the order of start_background_refresh and
\* stop_background_refresh calls, at most one refresh task can still run a
\* pass, it is the one kept in refresh_task, and is_running is True exactly
\* when there is one; start while running and stop while not running change
\* neither the manager nor any task.
C33_AtMostOneRefreshLoop ==
    /\ [](/\ \A i \in DOMAIN bgTasks : LiveTask(bgTasks[i]) => i = bg.refresh_task
          /\ bg.is_running <=> \E i \in DOMAIN bgTasks : LiveTask(bgTasks[i]))
    /\ [][(StartBackgroundRefresh /\ bg.is_running) => UNCHANGED <<bg, bgTasks>>]_vars
    /\ [][(StopBackgroundRefresh /\ ~bg.is_running) => UNCHANGED <<bg, bgTasks>>]_vars

\* C33's case: the loop was stopped and started again while the cancelled
\* task has not ended yet; the second task is the only one that can run a pass
C33_Witness ==
    /\ Len(bgTasks) = 2
    /\ bgTasks[1].cancelled /\ bgTasks[1].pc # "done"
    /\ bg.is_running /\ bg.refresh_task = 2
    /\ LiveTask(bgTasks[2])

\* --------------------------------------- what a pass leaves in the cache
\* the cache holds data of league lk under key
HoldsLeague(c, key, lk) ==
    key \in DOMAIN c /\ c[key].data.league_id = leagues[lk].league_id

\* C34: when a pass ends in which no fetch failed and under which the
\* Registry did not change, every registered league has an entry with its
\* data under the key get_league reads for it: the key of the league for a
\* request that names it, and the default key of its owner when it is the
\* owner's default.
C34_PassWarmsEveryLeague ==
    [][\A i \in DOMAIN bgTasks :
          (/\ bgTasks[i].pc = "iter"
           /\ bgTasks'[i].outcome = "completed"
           /\ bgTasks'[i].failed = {}
           /\ ~bgTasks'[i].mutated)
             => \A lk \in DOMAIN leagues :
                   LET o == leagues[lk].owner_id
                   IN /\ HoldsLeague(cache', UserCacheKey(o, lk), lk)
                      /\ users[o].default_league = lk
                            => HoldsLeague(cache', UserCacheKey(o, None), lk)]_vars

\* ----------------------------------------------------------- get_stats
\* espn_cache.get_stats(): reads the store, assigns nothing
espn_cache_get_stats ==
    /\ lastOp' = Observe("stats", None, None, get_stats(cache))
    /\ UNCHANGED <<regVars, cache, now, reqObs, cacheObs, schedVars, pollVars>>

NextStats ==
    \/ \E k \in CacheKeys, v \in CacheValues : espn_cache_set(k, v)
    \/ \E k \in CacheKeys : espn_cache_get(k)
    \/ espn_cache_clear
    \/ espn_cache_get_stats
    \/ \E d \in {1, TTL} : Tick(d)

SpecStats == Init({}) /\ [][NextStats]_vars

\* the entries in the store that were set more than the TTL ago
ExpiredInStore ==
    {k \in DOMAIN cache : k \in DOMAIN written /\ now - written[k].timestamp > TTL}

\* C35: in every state get_stats reports total = active + expired with total
\* the number of entries in the store and expired the number of entries in
\* the store set more than the TTL ago; a get_stats call returns these counts
\* and leaves the store as it is.
C35_StatsCountsAndKeeps ==
    /\ [](/\ get_stats(cache).total = get_stats(cache).active + get_stats(cache).expired
          /\ get_stats(cache).total = Cardinality(DOMAIN cache)
          /\ get_stats(cache).expired = Cardinality(ExpiredInStore))
    /\ [][espn_cache_get_stats
            => /\ cache' = cache
               /\ written' = written
               /\ lastOp'.result.expired = Cardinality(ExpiredInStore)
               /\ lastOp'.result.total = Cardinality(DOMAIN cache)]_vars

\* C35's case: get_stats has just counted one expired entry that no read has
\* purged and one entry of exactly the age of the TTL, both still in the store
C35_Witness ==
    /\ lastOp.op = "stats"
    /\ lastOp.result = [total |-> 2, expired |-> 1, active |-> 1]
    /\ Cardinality(DOMAIN cache) = 2
    /\ Cardinality(ExpiredInStore) = 1
    /\ \E k \in DOMAIN cache : now - cache[k].timestamp = TTL

\* ------------------------------------------- requests after remove_league
\* C36: a request of a user without a league key never returns data of a
\* league that the user does not have registered at the time of the request:
\* after remove_league returned True the removed league is not returned any
\* more, whatever the cache held (the environment's league aside).
C36_RemovedLeagueNotReturned ==
    [][\A u \in RequestUsers, cr \in BOOLEAN, f \in FallbackFailures :
          (GetLeague(u, None, cr, f) /\ lastReq'.league # None)
             => \A l \in LeagueIds :
                   lastReq'.league.league_id = l
                      => /\ u \in DOMAIN users
                         /\ SeqContains(users[u].leagues, LeagueKey(l, u))]_vars

\* ------------------------------------- whose league a connection opens
\* C38: get_league_connection with a league key returns a handle only when
\* the key is in the leagues of the user it is called for.
C38_ConnectionOnlyToOwnLeague ==
    (lastOp.op = "connect" /\ lastOp.key # None /\ lastOp.result # None)
        => /\ lastOp.user \in DOMAIN users
           /\ SeqContains(users[lastOp.user].leagues, lastOp.key)

\* ------------------------------------------ the shape of the Registry
\* C39: in every state of the Registry, every key of a user's leagues has a
\* config whose owner_id is that user, every config is in the leagues of its
\* owner, and no key is twice in a user's leagues.
C39_RegistryIsConsistent ==
    /\ \A u \in DOMAIN users :
          /\ \A i \in DOMAIN users[u].leagues :
                /\ users[u].leagues[i] \in DOMAIN leagues
                /\ leagues[users[u].leagues[i]].owner_id = u
          /\ \A i, j \in DOMAIN users[u].leagues :
                users[u].leagues[i] = users[u].leagues[j] => i = j
    /\ \A k \in DOMAIN leagues :
          /\ leagues[k].owner_id \in DOMAIN users
          /\ SeqContains(users[leagues[k].owner_id].leagues, k)

\* C39's case: both users have the same two league ids registered, in
\* different orders, and one of them has just registered a league again
C39_Witness ==
    /\ lastOp.op = "register" /\ lastOp.result = "ok"
    /\ \A u \in Users : u \in DOMAIN users /\ Len(users[u].leagues) = 2
    /\ users["1"].leagues[1][1] # users["2"].leagues[1][1]
    /\ users[lastOp.user].leagues[1] = lastOp.key
    /\ Cardinality(DOMAIN leagues) = 4

====
